---------------------------- MODULE Spec2Model ----------------------------
(***************************************************************************)
(* PlanIt: the command line entry point (main.py, cli.py) and the Task     *)
(* data holder (core/task.py).                                             *)
(*                                                                         *)
(* State: the Task objects a Python session holds, the list objects their  *)
(* `tags` attributes refer to, and the observable result of the latest     *)
(* call of main(argv).                                                     *)
(***************************************************************************)
EXTENDS Integers, Sequences, FiniteSets, TLC

VARIABLES
    tasks,   \* the Task objects constructed so far, in construction order
    lists,   \* heap of list objects: address -> sequence of tags
    argv,    \* argument list of the latest call of main
    args,    \* what parse_cli gave main: [returned, command]
    exc,     \* exception that ended the latest call of main ("none": it returned)
    stdout   \* lines the latest call of main printed

vars == <<tasks, lists, argv, args, exc, stdout>>

-----------------------------------------------------------------------------
(* Bounds of the model *)

MaxTasks == 2      \* Task objects held, specification Spec
MaxCliTasks == 1   \* Task objects held, specification SpecCli
MaxTags == 1       \* length of a tags list
MaxArgs == 2       \* length of argv

-----------------------------------------------------------------------------
(* Python values *)

\* Python's None and a present value, kept apart from every string and number
None == <<>>
Some(x) == <<x>>

-----------------------------------------------------------------------------
(* cli.py *)

\* the sub-commands registered on the parser: "list" with alias "ls", and "add"
SubCommands == {"list", "ls", "add"}

\* the flag argparse adds to the parser and to every sub-parser
HelpFlags == {"-h"}

\* words that argparse classifies as options (they start with '-')
OptionWords == {"-h", "-x"}

\* the words an argument list is made of
Words == SubCommands \cup OptionWords \cup {"rm"}

Argvs == UNION {[1..n -> Words] : n \in 0..MaxArgs}

\* what parse_cli does: it returns a Namespace or leaves through SystemExit
Returned(command) ==
    [returned |-> TRUE, command |-> command, code |-> 0, out |-> <<>>]
Exited(code, out) ==
    [returned |-> FALSE, command |-> None, code |-> code, out |-> out]

\* parser.parse_args: scan argv left to right. -h prints the usage and exits
\* with 0 wherever it is met; before the command word an unknown option is
\* kept as unrecognized and a word that is no registered sub-command is an
\* invalid choice (exit 2); after the command word everything else is
\* unrecognized; unrecognized arguments at the end are an error (exit 2).
RECURSIVE parse_args(_, _, _, _)
parse_args(av, i, command, extras) ==
    IF i > Len(av)
    THEN IF extras THEN Exited(2, <<>>) ELSE Returned(command)
    ELSE IF av[i] \in HelpFlags
    THEN Exited(0, <<"usage: PlanIt">>)
    ELSE IF command = None
    THEN IF av[i] \in OptionWords
         THEN parse_args(av, i + 1, command, TRUE)
         ELSE IF av[i] \notin SubCommands
         THEN Exited(2, <<>>)
         ELSE parse_args(av, i + 1, Some(av[i]), extras)
    ELSE parse_args(av, i + 1, command, TRUE)

\* mutant: the sub-command is not checked against the registered choices
parse_cli_AnyCommand(av) ==
    IF av # <<>> /\ av[1] \notin OptionWords /\ av[1] \notin SubCommands
    THEN Returned(Some(av[1]))
    ELSE parse_args(av, 1, None, FALSE)

parse_cli(av) == parse_args(av, 1, None, FALSE)

-----------------------------------------------------------------------------
(* main.py *)

AddNotSupported == "AssertionError: Adding items not supported"
Unreachable == "AssertionError: Unreachable"
SystemExit(code) == IF code = 0 THEN "SystemExit: 0" ELSE "SystemExit: 2"

Outcome(a, e, out) ==
    [args |-> [returned |-> a.returned, command |-> a.command],
     exc |-> e, stdout |-> out]

\* mutant: the alias is forgotten in the first condition of the dispatch
main_NoAlias(av) ==
    LET a == parse_cli(av) IN
    IF ~a.returned THEN Outcome(a, SystemExit(a.code), a.out)
    ELSE IF a.command = Some("list") \/ a.command = None
    THEN Outcome(a, "none", <<"All Todos:">>)
    ELSE IF a.command = Some("add")
    THEN Outcome(a, AddNotSupported, <<>>)
    ELSE Outcome(a, Unreachable, <<>>)

\* mutant: the add branch lists instead of refusing
main_AddLists(av) ==
    LET a == parse_cli(av) IN
    IF ~a.returned THEN Outcome(a, SystemExit(a.code), a.out)
    ELSE IF a.command = Some("list") \/ a.command = Some("ls") \/ a.command = None
    THEN Outcome(a, "none", <<"All Todos:">>)
    ELSE IF a.command = Some("add")
    THEN Outcome(a, "none", <<"All Todos:">>)
    ELSE Outcome(a, Unreachable, <<>>)

\* main: parse, then dispatch on args.command
main(av) ==
    LET a == parse_cli(av) IN
    IF ~a.returned THEN Outcome(a, SystemExit(a.code), a.out)
    ELSE IF a.command = Some("list") \/ a.command = Some("ls") \/ a.command = None
    THEN Outcome(a, "none", <<"All Todos:">>)
    ELSE IF a.command = Some("add")
    THEN Outcome(a, AddNotSupported, <<>>)
    ELSE Outcome(a, Unreachable, <<>>)

\* one call of main(av), start to end
Main(av) ==
    LET r == main(av) IN
    /\ argv' = av
    /\ args' = r.args
    /\ exc' = r.exc
    /\ stdout' = r.stdout
    /\ UNCHANGED <<tasks, lists>>

-----------------------------------------------------------------------------
(* core/task.py *)

\* the list object the default of the `tags` parameter is bound to; it is
\* created once, when the def statement runs
DefaultTags == 0

Ids == {1, 2}
Tags == {"x"}

\* what a caller passes for name, start, end, repeat and **kwargs
Drafts ==
    { [name |-> "a", start |-> None, end |-> None, repeat |-> None,
       attributes |-> {}],
      [name |-> "b", start |-> Some(1), end |-> Some(2),
       repeat |-> Some("weekly"), attributes |-> {<<"priority", "high">>}],
      [name |-> "", start |-> None, end |-> None, repeat |-> None,
       attributes |-> {}],
      [name |-> "c", start |-> Some(2), end |-> Some(1), repeat |-> None,
       attributes |-> {}] }

\* what a caller passes for tags: nothing, or a list of its own
TagsArguments == {None, Some(<<>>), Some(<<"x">>)}

\* the tags a task has: the contents of the list its attribute refers to
TagsOf(t) == lists[t.tags]

\* Task.__init__: every argument is stored as it is; tags is stored by
\* reference, and without a tags argument that is the default list object
Task_init(id, name, start, end, repeat, tagsArg, kwargs) ==
    LET addr == IF tagsArg = None THEN DefaultTags
                ELSE Cardinality(DOMAIN lists)
    IN
    /\ tasks' = Append(tasks,
                       [id |-> id, name |-> name, start |-> start, end |-> end,
                        repeat |-> repeat, tags |-> addr, attributes |-> kwargs])
    /\ lists' = IF tagsArg = None THEN lists
                ELSE [a \in DOMAIN lists \cup {addr} |->
                         IF a = addr THEN tagsArg[1] ELSE lists[a]]
    /\ UNCHANGED <<argv, args, exc, stdout>>

\* task.tags.append(tag) on the i-th task
TagsAppend(i, tag) ==
    /\ i \in DOMAIN tasks
    /\ Len(TagsOf(tasks[i])) < MaxTags
    /\ lists' = [lists EXCEPT ![tasks[i].tags] = Append(@, tag)]
    /\ UNCHANGED <<tasks, argv, args, exc, stdout>>

-----------------------------------------------------------------------------
(* Specifications *)

Init ==
    /\ tasks = <<>>
    /\ lists = [a \in {DefaultTags} |-> <<>>]
    /\ argv = <<>>
    /\ args = [returned |-> FALSE, command |-> None]
    /\ exc = "none"
    /\ stdout = <<>>

NewTask(max, tagsArguments) ==
    \E id \in Ids, d \in Drafts, tg \in tagsArguments :
        /\ Len(tasks) < max
        /\ Task_init(id, d.name, d.start, d.end, d.repeat, tg, d.attributes)

\* a session that constructs tasks and edits their tags
Next ==
    \/ NewTask(MaxTasks, TagsArguments)
    \/ \E i \in 1..MaxTasks, tag \in Tags : TagsAppend(i, tag)

Spec == Init /\ [][Next]_vars

\* a session that constructs tasks, leaving tags out, and calls main
NextCli ==
    \/ NewTask(MaxCliTasks, {None})
    \/ \E av \in Argvs : Main(av)

SpecCli == Init /\ [][NextCli]_vars

-----------------------------------------------------------------------------
(* Claims about the command line, checked under SpecCli *)

\* a step that is a call of main: the record of the latest call changed
MainCalled ==
    <<argv, args, exc, stdout>>' # <<argv, args, exc, stdout>>

\* C1: the 'add' command path of main completes without aborting (and, as
\* add does, leaves a task behind): whenever main was called and parse_cli
\* gave it the command "add", main returned normally and a task is held.
C1_AddCompletes ==
    (args.returned /\ args.command = Some("add")) =>
        (exc = "none" /\ tasks # <<>>)

\* the argument lists that run the list operation: the 'list' command, its
\* alias 'ls', or no command at all
ListArgvs == {<<>>, <<"list">>, <<"ls">>}

\* C7: the list operation is a pure read. Every call of main with 'list',
\* 'ls' or no command, from any state, prints the list header, returns
\* normally and leaves every Task object and every tags list as it was.
C7_ListPureRead ==
    [][(MainCalled /\ argv' \in ListArgvs) =>
          /\ exc' = "none"
          /\ stdout' = <<"All Todos:">>
          /\ tasks' = tasks
          /\ lists' = lists]_vars

C7_Witness ==
    /\ argv = <<"ls">>
    /\ args.returned
    /\ exc = "none"
    /\ stdout = <<"All Todos:">>
    /\ tasks # <<>>

\* C8: every call of main that parse_cli hands the command "add" ends with
\* the assertion failure "Adding items not supported": nothing is printed,
\* no Task is created or changed, and the call does not return normally.
C8_AddAborts ==
    [][(MainCalled /\ args'.returned /\ args'.command = Some("add")) =>
          /\ exc' = "AssertionError: Adding items not supported"
          /\ stdout' = <<>>
          /\ tasks' = tasks
          /\ lists' = lists]_vars

C8_Witness ==
    /\ argv = <<"add">>
    /\ args.returned
    /\ args.command = Some("add")
    /\ exc = AddNotSupported
    /\ tasks # <<>>

\* C9: whenever parse_cli returned, the command is 'list', 'ls', 'add' or
\* None, and main never raises the "Unreachable" assertion; an argument list
\* whose first word is anything else makes parse_cli exit, so that main ends
\* with SystemExit before it dispatches.
C9_UnreachableNeverReached ==
    /\ exc # "AssertionError: Unreachable"
    /\ args.returned =>
           args.command \in {None, Some("list"), Some("ls"), Some("add")}
    /\ (argv # <<>> /\ argv[1] \notin {"list", "ls", "add"}) =>
           (~args.returned /\ exc \in {"SystemExit: 0", "SystemExit: 2"})

C9_Witness ==
    /\ argv # <<>>
    /\ argv[1] = "rm"
    /\ ~args.returned
    /\ exc = "SystemExit: 2"

-----------------------------------------------------------------------------
(* Claims about Task objects, checked under Spec *)

\* C2: no two tasks held at the same time have the same id.
C2_IdsUnique ==
    \A i, j \in DOMAIN tasks : i # j => tasks[i].id # tasks[j].id

\* a task that validation rejects: empty name, or start later than end
InvalidTask(t) ==
    \/ t.name = ""
    \/ t.start # None /\ t.end # None /\ t.start[1] > t.end[1]

\* C3: no task object with an empty name or with start later than end is
\* ever created.
C3_NoInvalidTask ==
    \A i \in DOMAIN tasks : ~InvalidTask(tasks[i])

\* C10: the tags of distinct tasks are independent. For two tasks that were
\* both constructed without a tags argument, appending a tag to one leaves
\* the tags of the other as they were; and a task constructed without a tags
\* argument starts with no tags.
C10_TagsIndependent ==
    [][/\ \A i, j \in DOMAIN tasks, tag \in Tags :
              (/\ i # j
               /\ tasks[i].tags = DefaultTags
               /\ tasks[j].tags = DefaultTags
               /\ TagsAppend(i, tag))
              => lists'[tasks'[j].tags] = TagsOf(tasks[j])
       /\ (Len(tasks') = Len(tasks) + 1 /\ tasks'[Len(tasks')].tags = DefaultTags)
              => lists'[DefaultTags] = <<>>]_vars

=============================================================================
